---- MODULE Spec2Model ----
(***************************************************************************)
(* Model of the movie repository of agpelkey/greenlight (internal/data):   *)
(* MovieModel.Insert / Get / GetAll / Update / Delete running as           *)
(* concurrent callers against one PostgreSQL table `movies`.               *)
(*                                                                         *)
(* A repository call is two steps of its caller: the *Begin step runs the  *)
(* code up to the point where the statement is handed to database/sql (or  *)
(* returns at once on the id < 1 shortcut), the *Return step is the store  *)
(* executing that one statement atomically together with the code that     *)
(* maps the store's answer to the call's results.  A statement that fails  *)
(* (driver error, expired 3 s context) is taken to have changed no row.    *)
(***************************************************************************)
EXTENDS Integers, Sequences, FiniteSets, TLC

\* ------------------------------------------------------------------ bounds
MaxId == 2
MaxVersion == 2

\* Two concurrent callers (request goroutines) of the one MovieModel.
Callers == {"c1", "c2"}

\* created_at: the store's clock read at the n-th INSERT; the zero time.Time.
Timestamp(n) == <<"time", n>>
ZeroTime == Timestamp(0)

\* ------------------------------------------------------------ error values
NoError == "nil"
ErrRecordNotFound == "record not found"
ErrEditConflict == "edit conflict"
ErrNoRows == "sql: no rows in result set"
DeadlineExceeded == "context deadline exceeded"
ErrBadConn == "driver: bad connection"

\* What a statement handed to the store can fail with, other than "no rows".
StoreErrors == {DeadlineExceeded, ErrBadConn}

\* ------------------------------------------------------------- the entity
\* type Movie struct; a title is the sequence of its words, "" is << >>.
\* GenresNil tells the nil slice from the empty one.
ZeroMovie ==
    [ID |-> 0, CreatedAt |-> ZeroTime, Title |-> << >>, Year |-> 0, Runtime |-> 0,
     Genres |-> << >>, GenresNil |-> TRUE, Version |-> 0]

Dune == [Title |-> <<"Dune">>, Year |-> 2021, Runtime |-> 155,
         Genres |-> <<"scifi", "drama">>]
Heat == [Title |-> <<"heat">>, Year |-> 1995, Runtime |-> 170,
         Genres |-> <<"drama">>]
DuneTwo == [Title |-> <<"dune", "two">>, Year |-> 2021, Runtime |-> 166,
            Genres |-> <<"scifi">>]

\* The field values callers insert, and the ones they update a movie to.
InsertPayloads == {Dune}
UpdatePayloads == {Heat}

\* The Movie a caller builds from input fields before Insert; input that
\* has no genres field leaves the nil slice.
NewMovie(p) ==
    [ZeroMovie EXCEPT !.Title = p.Title, !.Year = p.Year,
                      !.Runtime = p.Runtime,
                      !.Genres = IF "Genres" \in DOMAIN p THEN p.Genres
                                 ELSE << >>,
                      !.GenresNil = "Genres" \notin DOMAIN p]

\* The ids callers pass: two values below 1, and every id the store can assign.
InputIds == (0 - 1)..MaxId

VARIABLES
    movies,   \* the table: a function from the ids of the stored rows to the rows
    seq,      \* last value handed out by the id sequence (bigserial)
    pc,       \* per caller: "idle" or "waiting" (statement in flight)
    call,     \* per caller: the arguments of its current / last call
    ret,      \* per caller: the results of its last call
    logger,   \* the one jsonlog.Logger: its output, minimum level and mutex
    db        \* the sql.DB handle: the settings of its connection pool

vars == <<movies, seq, pc, call, ret, logger, db>>

NoFilters == [Page |-> 0, PageSize |-> 0, Sort |-> ""]
ZeroMetadata ==
    [CurrentPage |-> 0, PageSize |-> 0, FirstPage |-> 0, LastPage |-> 0,
     TotalRecords |-> 0]

NoCall == [op |-> "none", id |-> 0, movie |-> ZeroMovie,
           title |-> << >>, genres |-> << >>, filters |-> NoFilters,
           total |-> 0, deadline |-> FALSE, level |-> 0]

\* stmts counts the statements the call handed to the store; movie is the
\* Movie behind the caller's pointer (Insert, Update) or the returned pointer
\* (Get), << >> standing for nil; scanned is the number of rows GetAll had
\* appended to its local slice when it returned; errors is the validator's
\* Errors after a validation.
ZeroRet == [err |-> NoError, movie |-> << >>, movies |-> << >>,
            metadata |-> ZeroMetadata, stmts |-> 0, scanned |-> 0,
            errors |-> {}]

\* jsonlog.New(os.Stdout, jsonlog.LevelInfo): nothing written, mutex free.
LevelInfo == 0
LevelError == 1
NoHolder == "unlocked"
NewLogger(minLevel) == [out |-> << >>, minLevel |-> minLevel, mu |-> NoHolder]

\* openDB: db.SetMaxOpenConns(cfg.db.maxOpenConns), the flag
\* db-max-open-conns with its default of 25.
DefaultMaxOpenConns == 25
openDB(maxOpenConns) == [maxOpenConns |-> maxOpenConns]

Init ==
    /\ movies = << >>
    /\ seq = 0
    /\ pc = [c \in Callers |-> "idle"]
    /\ call = [c \in Callers |-> NoCall]
    /\ ret = [c \in Callers |-> ZeroRet]
    /\ logger = NewLogger(LevelInfo)
    /\ db = openDB(DefaultMaxOpenConns)

\* ------------------------------------------------------- the store's rows
\* rows.Scan of a movies row into a Movie struct.
ScanMovieWithoutVersion(row) ==
    [ID |-> row.id, CreatedAt |-> row.created_at, Title |-> row.title,
     Year |-> row.year, Runtime |-> row.runtime, Genres |-> row.genres,
     GenresNil |-> FALSE, Version |-> 0]
ScanMovie(row) ==
    [ID |-> row.id, CreatedAt |-> row.created_at, Title |-> row.title,
     Year |-> row.year, Runtime |-> row.runtime, Genres |-> row.genres,
     GenresNil |-> FALSE, Version |-> row.version]

\* First version of a row (column default of the movies table).
InitialVersion == 1

\* INSERT INTO movies (title, year, runtime, genres) VALUES ($1, $2, $3, $4)
InsertedRow(m, id, t) ==
    [id |-> id, created_at |-> t, title |-> m.Title, year |-> m.Year,
     runtime |-> m.Runtime, genres |-> m.Genres, version |-> InitialVersion]

\* The ids of the stored rows.
StoredIds == DOMAIN movies

\* The connections of the pool in use: one per statement at the store.
InUse == Cardinality({c \in Callers : pc[c] = "waiting"})

\* database/sql hands out a connection while fewer than the maximum are
\* open; a maximum of zero or less is no limit.
PoolHasRoomOffByOne == db.maxOpenConns <= 0 \/ InUse + 1 < db.maxOpenConns
PoolHasRoom == db.maxOpenConns <= 0 \/ InUse < db.maxOpenConns

\* Begin a call: remember its arguments, clear the results.  The statement
\* is handed over with a context that carries the call's own 3-second
\* deadline; it goes to the store on a connection of the pool, or the call
\* waits for one.
IssueWithoutTimeout(c, args, n) ==
    /\ pc[c] = "idle"
    /\ call' = [call EXCEPT ![c] = args]
    /\ ret' = [ret EXCEPT ![c] = [ZeroRet EXCEPT !.stmts = n]]
    /\ pc' = [pc EXCEPT ![c] = IF PoolHasRoom THEN "waiting" ELSE "acquiring"]
    /\ UNCHANGED <<movies, seq, logger, db>>
Issue(c, args, n) ==
    /\ pc[c] = "idle"
    /\ call' = [call EXCEPT ![c] = [args EXCEPT !.deadline = TRUE]]
    /\ ret' = [ret EXCEPT ![c] = [ZeroRet EXCEPT !.stmts = n]]
    /\ pc' = [pc EXCEPT ![c] = IF PoolHasRoom THEN "waiting" ELSE "acquiring"]
    /\ UNCHANGED <<movies, seq, logger, db>>

\* A call that waits for a connection gets one when the pool has room.
Acquire(c) ==
    /\ pc[c] = "acquiring"
    /\ PoolHasRoom
    /\ pc' = [pc EXCEPT ![c] = "waiting"]
    /\ UNCHANGED <<movies, seq, call, ret, logger, db>>

\* Finish a call with its results.
Finish(c, r) ==
    /\ ret' = [ret EXCEPT ![c] = r]
    /\ pc' = [pc EXCEPT ![c] = "idle"]
    /\ UNCHANGED <<call, logger, db>>

\* ------------------------------------------------------------------ Insert
InsertBegin(c, p) ==
    Issue(c, [NoCall EXCEPT !.op = "Insert", !.movie = NewMovie(p)], 1)

\* RETURNING id, created_at, version scanned into the caller's Movie.
InsertScanWithoutVersion(m, row) ==
    [m EXCEPT !.ID = row.id, !.CreatedAt = row.created_at]
InsertScan(m, row) ==
    [m EXCEPT !.ID = row.id, !.CreatedAt = row.created_at,
              !.Version = row.version]

\* return m.DB.QueryRowContext(...).Scan(...): the error as it is.
InsertFailure(c, e) ==
    [ret[c] EXCEPT !.err = e, !.movie = <<call[c].movie>>]

InsertReturn(c) ==
    /\ pc[c] = "waiting"
    /\ call[c].op = "Insert"
    /\ \/ /\ seq < MaxId
          /\ LET row == InsertedRow(call[c].movie, seq + 1, Timestamp(seq + 1)) IN
               /\ seq' = seq + 1
               /\ movies' = [i \in StoredIds \cup {row.id} |->
                               IF i = row.id THEN row ELSE movies[i]]
               /\ Finish(c, [ret[c] EXCEPT
                               !.err = NoError,
                               !.movie = <<InsertScan(call[c].movie, row)>>])
       \/ /\ \E e \in StoreErrors : Finish(c, InsertFailure(c, e))
          /\ UNCHANGED <<movies, seq>>

\* --------------------------------------------------------------------- Get
\* The id < 1 shortcut of Get and Delete, taken before any statement is built.
InvalidIdOffByOne(id) == id < 0
InvalidId(id) == id < 1

\* if id < 1 { return nil, ErrRecordNotFound }
GetBegin(c, id) ==
    IF InvalidId(id)
    THEN /\ pc[c] = "idle"
         /\ call' = [call EXCEPT ![c] = [NoCall EXCEPT !.op = "Get", !.id = id]]
         /\ ret' = [ret EXCEPT ![c] = [ZeroRet EXCEPT !.err = ErrRecordNotFound]]
         /\ UNCHANGED <<movies, seq, pc, logger, db>>
    ELSE Issue(c, [NoCall EXCEPT !.op = "Get", !.id = id], 1)

\* SELECT ... FROM movies WHERE id = $1: the matching rows.
SelectById(id) == {movies[i] : i \in {j \in StoredIds : movies[j].id = id}}

\* The switch on the error of QueryRowContext(...).Scan(...) in Get.
GetErrorAlwaysNotFound(err) == ErrRecordNotFound
GetError(err) == IF err = ErrNoRows THEN ErrRecordNotFound ELSE err

GetFailure(c, e) == [ret[c] EXCEPT !.err = GetError(e)]

GetReturn(c) ==
    /\ pc[c] = "waiting"
    /\ call[c].op = "Get"
    /\ UNCHANGED <<movies, seq>>
    /\ \/ /\ SelectById(call[c].id) = {}
          /\ Finish(c, [ret[c] EXCEPT !.err = GetError(ErrNoRows)])
       \/ \E row \in SelectById(call[c].id) :
            Finish(c, [ret[c] EXCEPT !.err = NoError,
                                     !.movie = <<ScanMovie(row)>>])
       \/ \E e \in StoreErrors : Finish(c, GetFailure(c, e))

\* ------------------------------------------------------------------ Update
UpdateBegin(c, m) ==
    Issue(c, [NoCall EXCEPT !.op = "Update", !.movie = m], 1)

\* WHERE id = $5 AND version = $6
UpdateWhereIdOnly(row, m) == row.id = m.ID
UpdateWhere(row, m) == row.id = m.ID /\ row.version = m.Version

\* SET title = $1, year = $2, runtime = $3, genres = $4, version = version + 1
UpdateSetSameVersion(row, m) ==
    [row EXCEPT !.title = m.Title, !.year = m.Year, !.runtime = m.Runtime,
                !.genres = m.Genres]
UpdateSet(row, m) ==
    [row EXCEPT !.title = m.Title, !.year = m.Year, !.runtime = m.Runtime,
                !.genres = m.Genres, !.version = row.version + 1]

\* The switch on the error of QueryRowContext(...).Scan(&movie.Version).
UpdateErrorAsGet(err) == IF err = ErrNoRows THEN ErrRecordNotFound ELSE err
UpdateError(err) == IF err = ErrNoRows THEN ErrEditConflict ELSE err

UpdateFailure(c, e) ==
    [ret[c] EXCEPT !.err = UpdateError(e), !.movie = <<call[c].movie>>]

UpdateReturn(c) ==
    /\ pc[c] = "waiting"
    /\ call[c].op = "Update"
    /\ UNCHANGED seq
    /\ LET m == call[c].movie
           hit == {i \in StoredIds : UpdateWhere(movies[i], m)}
       IN
       \/ /\ hit = {}
          /\ UNCHANGED movies
          /\ Finish(c, [ret[c] EXCEPT !.err = UpdateError(ErrNoRows),
                                      !.movie = <<m>>])
       \/ /\ hit # {}
          /\ \A i \in hit : movies[i].version < MaxVersion
          /\ movies' = [i \in StoredIds |->
                          IF i \in hit THEN UpdateSet(movies[i], m)
                          ELSE movies[i]]
          /\ \E i \in hit :
               Finish(c, [ret[c] EXCEPT
                            !.err = NoError,
                            !.movie = <<[m EXCEPT !.Version = movies'[i].version]>>])
       \/ /\ UNCHANGED movies
          /\ \E e \in StoreErrors : Finish(c, UpdateFailure(c, e))

\* ------------------------------------------------------------------ Delete
\* if id < 1 { return ErrRecordNotFound }
DeleteBegin(c, id) ==
    IF InvalidId(id)
    THEN /\ pc[c] = "idle"
         /\ call' = [call EXCEPT ![c] = [NoCall EXCEPT !.op = "Delete", !.id = id]]
         /\ ret' = [ret EXCEPT ![c] = [ZeroRet EXCEPT !.err = ErrRecordNotFound]]
         /\ UNCHANGED <<movies, seq, pc, logger, db>>
    ELSE Issue(c, [NoCall EXCEPT !.op = "Delete", !.id = id], 1)

\* DELETE FROM movies WHERE id = $1: the ids of the rows it removes.
DeleteWhere(id) == {i \in StoredIds : movies[i].id = id}

\* if rowsAffected == 0 { return ErrRecordNotFound }; return nil
DeleteResultIgnoringCount(rowsAffected) == NoError
DeleteResult(rowsAffected) ==
    IF rowsAffected = 0 THEN ErrRecordNotFound ELSE NoError

\* result, err := m.DB.ExecContext(...); if err != nil { return err }
DeleteFailure(c, e) == [ret[c] EXCEPT !.err = e]

DeleteReturn(c) ==
    /\ pc[c] = "waiting"
    /\ call[c].op = "Delete"
    /\ UNCHANGED seq
    /\ \/ LET gone == DeleteWhere(call[c].id) IN
          /\ movies' = [i \in StoredIds \ gone |-> movies[i]]
          /\ Finish(c, [ret[c] EXCEPT !.err = DeleteResult(Cardinality(gone))])
       \/ /\ UNCHANGED movies
          /\ \E e \in StoreErrors : Finish(c, DeleteFailure(c, e))

\* ------------------------------------------------------------------ GetAll
\* The values of Filters.Sort that the sort safelist admits.
SortSafelist ==
    {"id", "title", "year", "runtime", "-id", "-title", "-year", "-runtime"}

\* What sortColumn() ends the call with for a Sort value off the safelist.
UnsafeSortPanic == "panic: unsafe sort parameter"

\* Filters.sortColumn(): the safelisted Sort value without its "-" prefix; a
\* value off the safelist is rejected.
sortColumn(f) ==
    CASE f.Sort \in {"id", "-id"} -> "id"
      [] f.Sort \in {"title", "-title"} -> "title"
      [] f.Sort \in {"year", "-year"} -> "year"
      [] f.Sort \in {"runtime", "-runtime"} -> "runtime"
      [] OTHER -> UnsafeSortPanic

\* Filters.sortDirection(): DESC for a "-" prefix, ASC otherwise.
sortDirection(f) ==
    IF f.Sort \in {"-id", "-title", "-year", "-runtime"} THEN "DESC" ELSE "ASC"

\* Filters.limit() and Filters.offset().
limit(f) == f.PageSize
offset(f) == (f.Page - 1) * f.PageSize

\* The 'simple' text search configuration lower-cases a word.
Lower(w) == IF w = "Dune" THEN "dune" ELSE w

\* to_tsvector('simple', title) and plainto_tsquery('simple', $1): the
\* lexemes of a text; the query matches when the text has all its lexemes.
Lexemes(text) == {Lower(text[i]) : i \in DOMAIN text}

\* to_tsvector('simple', title) @@ plainto_tsquery('simple', $1) OR $1 = ''
TitleMatches(row, title) ==
    \/ (Lexemes(title) # {} /\ Lexemes(title) \subseteq Lexemes(row.title))
    \/ title = << >>

\* genres @> $2 OR $2 = '{}'
GenresMatchAny(row, genres) ==
    \/ {genres[i] : i \in DOMAIN genres} \cap
          {row.genres[i] : i \in DOMAIN row.genres} # {}
    \/ genres = << >>
GenresMatch(row, genres) ==
    \/ {genres[i] : i \in DOMAIN genres} \subseteq
          {row.genres[i] : i \in DOMAIN row.genres}
    \/ genres = << >>

\* The rows the WHERE clause of GetAll's query keeps.
Matching(title, genres) ==
    {movies[i] : i \in {j \in StoredIds :
                          TitleMatches(movies[j], title)
                          /\ GenresMatch(movies[j], genres)}}

\* The store's ordering of the title column, as the rank of a title's text.
TitleRank(t) ==
    CASE t = Dune.Title -> 1
      [] t = DuneTwo.Title -> 2
      [] t = Heat.Title -> 3
      [] OTHER -> 0

\* The value ORDER BY compares for a sort column.
SortKey(row, col) ==
    CASE col = "id" -> row.id
      [] col = "title" -> TitleRank(row.title)
      [] col = "year" -> row.year
      [] col = "runtime" -> row.runtime
      [] OTHER -> 0

\* ORDER BY <col> <dir>, id ASC: row a comes before row b.
BeforeTieDesc(a, b, col, dir) ==
    LET ka == SortKey(a, col)
        kb == SortKey(b, col)
    IN  \/ (dir = "ASC" /\ ka < kb)
        \/ (dir = "DESC" /\ ka > kb)
        \/ (ka = kb /\ a.id > b.id)
Before(a, b, col, dir) ==
    LET ka == SortKey(a, col)
        kb == SortKey(b, col)
    IN  \/ (dir = "ASC" /\ ka < kb)
        \/ (dir = "DESC" /\ ka > kb)
        \/ (ka = kb /\ a.id < b.id)

\* A set of rows as the sequence that ORDER BY puts them in.
Ordered(S, col, dir) ==
    [k \in 1..Cardinality(S) |->
       CHOOSE r \in S :
          Cardinality({q \in S : Before(q, r, col, dir)}) = k - 1]

Min(a, b) == IF a < b THEN a ELSE b

\* The result set of GetAll's query: the matching rows in order, cut by
\* LIMIT $3 OFFSET $4, each with count(*) OVER() (the number of matching
\* rows) in its first column.
QueryRows(title, genres, f) ==
    LET S == Matching(title, genres)
        ordered == Ordered(S, sortColumn(f), sortDirection(f))
        first == offset(f) + 1
        last == Min(offset(f) + limit(f), Len(ordered))
    IN  [k \in 1..(IF last >= first THEN last - first + 1 ELSE 0) |->
           [count |-> Cardinality(S), row |-> ordered[first + k - 1]]]

\* totalRecords := 0; for rows.Next() { rows.Scan(&totalRecords, ...) }
ScanTotalRecords(rs) == IF Len(rs) = 0 THEN 0 ELSE rs[Len(rs)].count

\* movies := []*Movie{}; for rows.Next() { ...; movies = append(movies, &movie) }
ScanMovies(rs) == [k \in 1..Len(rs) |-> ScanMovie(rs[k].row)]

\* calculateMetadata(totalRecords, page, pageSize)
calculateMetadata(totalRecords, page, pageSize) ==
    IF totalRecords = 0
    THEN ZeroMetadata
    ELSE [CurrentPage |-> page, PageSize |-> pageSize, FirstPage |-> 1,
          LastPage |-> (totalRecords + pageSize - 1) \div pageSize,
          TotalRecords |-> totalRecords]

\* metadata := calculateMetadata(totalRecords, filters.Page, filters.PageSize)
pageMetadataSwapped(totalRecords, f) ==
    calculateMetadata(totalRecords, f.PageSize, f.Page)
pageMetadata(totalRecords, f) ==
    calculateMetadata(totalRecords, f.Page, f.PageSize)

\* The query text is built first, with filters.sortColumn() in its ORDER BY:
\* a Sort value that sortColumn() rejects ends the call there, before
\* QueryContext.
GetAllBeginUnchecked(c, title, genres, f) ==
    Issue(c, [NoCall EXCEPT !.op = "GetAll", !.title = title,
                            !.genres = genres, !.filters = f], 1)
GetAllBegin(c, title, genres, f) ==
    IF sortColumn(f) = UnsafeSortPanic
    THEN /\ pc[c] = "idle"
         /\ call' = [call EXCEPT ![c] =
                       [NoCall EXCEPT !.op = "GetAll", !.title = title,
                                      !.genres = genres, !.filters = f]]
         /\ ret' = [ret EXCEPT ![c] = [ZeroRet EXCEPT !.err = UnsafeSortPanic]]
         /\ UNCHANGED <<movies, seq, pc, logger, db>>
    ELSE Issue(c, [NoCall EXCEPT !.op = "GetAll", !.title = title,
                                 !.genres = genres, !.filters = f], 1)

\* return nil, Metadata{}, err: what GetAll returns when the query, the Scan
\* of a row or the iteration fails after the Movies in read were appended.
GetAllFailedPartial(read, e) ==
    [err |-> e, movies |-> read, metadata |-> ZeroMetadata]
GetAllFailed(read, e) ==
    [err |-> e, movies |-> << >>, metadata |-> ZeroMetadata]

\* The results of a GetAll that fails after its loop read k rows of rs.
GetAllFailure(c, rs, k, e) ==
    LET failed == GetAllFailed(SubSeq(ScanMovies(rs), 1, k), e)
    IN  [ret[c] EXCEPT !.err = failed.err,
                       !.movies = failed.movies,
                       !.metadata = failed.metadata,
                       !.scanned = k]

\* The query fails (no row read), or the loop over the result set reads k of
\* its rows and then a Scan or the iteration fails, or all rows are read.
GetAllReturn(c) ==
    /\ pc[c] = "waiting"
    /\ call[c].op = "GetAll"
    /\ UNCHANGED <<movies, seq>>
    /\ LET f == call[c].filters
           rs == QueryRows(call[c].title, call[c].genres, f)
       IN
       \/ Finish(c, [ret[c] EXCEPT
                       !.err = NoError,
                       !.movies = ScanMovies(rs),
                       !.metadata = pageMetadata(ScanTotalRecords(rs), f),
                       !.scanned = Len(rs)])
       \/ \E e \in StoreErrors, k \in 0..Len(rs) :
            Finish(c, GetAllFailure(c, rs, k, e))

\* The Movie values callers pass to Update: any id, any version they may have
\* observed, any new field values.
UpdateArgs ==
    {[NewMovie(p) EXCEPT !.ID = i, !.Version = v] :
        p \in UpdatePayloads, i \in 1..MaxId, v \in 1..MaxVersion}

Next ==
    \E c \in Callers :
       \/ \E p \in InsertPayloads : InsertBegin(c, p)
       \/ InsertReturn(c)
       \/ \E id \in InputIds : GetBegin(c, id)
       \/ GetReturn(c)
       \/ \E m \in UpdateArgs : UpdateBegin(c, m)
       \/ UpdateReturn(c)
       \/ \E id \in InputIds : DeleteBegin(c, id)
       \/ DeleteReturn(c)

Spec == Init /\ [][Next]_vars

\* -------------------------------------------------- the listing specification
\* One caller fills the table, deletes from it and lists it with GetAll.  A
\* listing changes no row and its caller's state is overwritten by the next
\* call, so a listing made right after a listing reaches no state that the
\* same listing made in its place does not: the Lister lists after a write.
MaxPage == 3
MaxPageSize == 2

Lister == "c1"
ListPayloads == {Dune, Heat, DuneTwo}
ListTitles == {<< >>, <<"dune">>, <<"Dune", "two">>}
ListGenres == {<< >>, <<"drama">>, <<"drama", "scifi">>}
UnsafeSort == "id; DROP TABLE movies"
ListFilters ==
    [Page : 1..MaxPage, PageSize : 1..MaxPageSize,
     Sort : SortSafelist \cup {UnsafeSort}]

NextList ==
    \/ \E p \in ListPayloads : InsertBegin(Lister, p)
    \/ InsertReturn(Lister)
    \/ \E id \in 1..MaxId : DeleteBegin(Lister, id)
    \/ DeleteReturn(Lister)
    \/ /\ call[Lister].op # "GetAll"
       /\ \E t \in ListTitles, g \in ListGenres, f \in ListFilters :
            GetAllBegin(Lister, t, g, f)
    \/ GetAllReturn(Lister)

SpecList == Init /\ [][NextList]_vars

\* ------------------------------------------------------------------------
\* Validation.  A Validator holds a map from field key to message; a failed
\* check adds its message unless the key already has one.
NewValidator == {}
Valid(v) == v = {}
AddError(v, key, message) ==
    IF \E e \in v : e[1] = key THEN v ELSE v \cup {<<key, message>>}
Check(v, ok, key, message) == IF ok THEN v ELSE AddError(v, key, message)
Unique(values) ==
    \A i, j \in DOMAIN values : values[i] = values[j] => i = j

\* len(movie.Title): the bytes of the words and of the spaces between them.
LongWord == "a word of 500 bytes"
TooLongWord == "a word of 501 bytes"
WordBytes(w) ==
    CASE w = LongWord -> 500
      [] w = TooLongWord -> 501
      [] w \in {"Dune", "dune", "heat"} -> 4
      [] OTHER -> 3
RECURSIVE TitleBytes(_)
TitleBytes(title) ==
    IF title = << >> THEN 0
    ELSE IF Len(title) = 1 THEN WordBytes(title[1])
    ELSE WordBytes(title[1]) + 1 + TitleBytes(Tail(title))

\* int32(time.Now().Year())
CurrentYear == 2026

ValidateMovieWithoutUnique(v, movie) ==
    LET v1 == Check(v, movie.Title # << >>, "title", "must be provided")
        v2 == Check(v1, TitleBytes(movie.Title) <= 500, "title",
                    "must not be more than 500 bytes long")
        v3 == Check(v2, movie.Year # 0, "year", "must be provided")
        v4 == Check(v3, movie.Year >= 1888, "year", "must be greater than 1888")
        v5 == Check(v4, movie.Year <= CurrentYear, "year",
                    "must not be in the future")
        v6 == Check(v5, movie.Runtime # 0, "runtime", "must be provided")
        v7 == Check(v6, movie.Runtime > 0, "runtime",
                    "must be a positive integer")
        v8 == Check(v7, ~movie.GenresNil, "genres", "must be provided")
        v9 == Check(v8, Len(movie.Genres) >= 1, "genres",
                    "must contain at least 1 genre")
        v10 == Check(v9, Len(movie.Genres) <= 5, "genres",
                     "must not contain more than 5 genres")
    IN  v10
ValidateMovie(v, movie) ==
    LET v1 == Check(v, movie.Title # << >>, "title", "must be provided")
        v2 == Check(v1, TitleBytes(movie.Title) <= 500, "title",
                    "must not be more than 500 bytes long")
        v3 == Check(v2, movie.Year # 0, "year", "must be provided")
        v4 == Check(v3, movie.Year >= 1888, "year", "must be greater than 1888")
        v5 == Check(v4, movie.Year <= CurrentYear, "year",
                    "must not be in the future")
        v6 == Check(v5, movie.Runtime # 0, "runtime", "must be provided")
        v7 == Check(v6, movie.Runtime > 0, "runtime",
                    "must be a positive integer")
        v8 == Check(v7, ~movie.GenresNil, "genres", "must be provided")
        v9 == Check(v8, Len(movie.Genres) >= 1, "genres",
                    "must contain at least 1 genre")
        v10 == Check(v9, Len(movie.Genres) <= 5, "genres",
                     "must not contain more than 5 genres")
        v11 == Check(v10, Unique(movie.Genres), "genres",
                     "must not contain duplicate values")
    IN  v11

\* app.failedValidationResponse: the handler answers 422 with the errors and
\* returns.
FailedValidation == "422 Unprocessable Entity"
Reject(c, handler, movie, v) ==
    /\ pc[c] = "idle"
    /\ call' = [call EXCEPT ![c] =
                  [NoCall EXCEPT !.op = handler, !.movie = movie]]
    /\ ret' = [ret EXCEPT ![c] =
                 [ZeroRet EXCEPT !.err = FailedValidation, !.errors = v]]
    /\ UNCHANGED <<movies, seq, pc, logger, db>>

\* handleCreateMovie: build the Movie from the input, validate it, answer 422
\* if it is not valid; a valid Movie goes on to Insert.
handleCreateMovie(c, input) ==
    LET movie == NewMovie(input)
        v == ValidateMovie(NewValidator, movie)
    IN  IF ~Valid(v)
        THEN Reject(c, "handleCreateMovie", movie, v)
        ELSE InsertBegin(c, input)

\* handleUpdateMovie: the Movie read from the store with the input's fields
\* copied over it is validated; a valid Movie goes on to Update.
handleUpdateMovie(c, movie) ==
    LET v == ValidateMovie(NewValidator, movie)
    IN  IF ~Valid(v)
        THEN Reject(c, "handleUpdateMovie", movie, v)
        ELSE UpdateBegin(c, movie)

\* Requests whose genres are missing, empty, single, duplicated, five and six.
FiveGenres == <<"action", "comedy", "drama", "scifi", "war">>
SixGenres == <<"action", "comedy", "drama", "scifi", "war", "western">>
GenreInputs ==
    {<< >>, <<"drama">>, <<"drama", "drama">>, FiveGenres, SixGenres}
NoGenres == [Title |-> Dune.Title, Year |-> Dune.Year, Runtime |-> Dune.Runtime]
CreateInputs ==
    {[Dune EXCEPT !.Genres = g] : g \in GenreInputs} \cup {NoGenres}
UpdateInputs ==
    {[NewMovie(p) EXCEPT !.ID = i, !.Version = n] :
        p \in CreateInputs, i \in 1..MaxId, n \in 1..MaxVersion}

NextHandlers ==
    \/ \E input \in CreateInputs : handleCreateMovie(Lister, input)
    \/ InsertReturn(Lister)
    \/ \E movie \in UpdateInputs : handleUpdateMovie(Lister, movie)
    \/ UpdateReturn(Lister)

SpecHandlers == Init /\ [][NextHandlers]_vars

\* ValidateMovie applied to Movies that meet and that break each rule.
ValidatedTitles == {<< >>, <<"Dune">>, <<LongWord>>, <<TooLongWord>>}
ValidatedYears == {0, 1887, 1888, CurrentYear, CurrentYear + 1}
ValidatedRuntimes == {0 - 1, 0, 155}
ValidatedGenres == GenreInputs \cup {<<"">>, <<"drama", "">>}
ValidatedInputs ==
    [Title : ValidatedTitles, Year : ValidatedYears,
     Runtime : ValidatedRuntimes, Genres : ValidatedGenres]
    \cup [Title : ValidatedTitles, Year : ValidatedYears,
          Runtime : ValidatedRuntimes]

Validate(c, input) ==
    /\ pc[c] = "idle"
    /\ call' = [call EXCEPT ![c] =
                  [NoCall EXCEPT !.op = "ValidateMovie",
                                 !.movie = NewMovie(input)]]
    /\ ret' = [ret EXCEPT ![c] =
                 [ZeroRet EXCEPT
                    !.errors = ValidateMovie(NewValidator, NewMovie(input))]]
    /\ UNCHANGED <<movies, seq, pc, logger, db>>

NextValidate == \E input \in ValidatedInputs : Validate(Lister, input)

SpecValidate == Init /\ [][NextValidate]_vars

\* ------------------------------------------------------------------------
\* Calls against a store that may never answer.  Each call's context carries
\* its own deadline (context.WithTimeout(context.Background(), 3*time.Second)
\* in every method); when the timer fires, database/sql gives the statement
\* up and the method's QueryRowContext, QueryContext or ExecContext returns
\* the context's error, which the method's error handling then maps.
FailureOf(c, e) ==
    CASE call[c].op = "Insert" -> InsertFailure(c, e)
      [] call[c].op = "Get" -> GetFailure(c, e)
      [] call[c].op = "Update" -> UpdateFailure(c, e)
      [] call[c].op = "Delete" -> DeleteFailure(c, e)
      [] call[c].op = "GetAll" -> GetAllFailure(c, << >>, 0, e)

DeadlineExpires(c) ==
    /\ pc[c] = "waiting"
    /\ call[c].deadline
    /\ Finish(c, FailureOf(c, DeadlineExceeded))
    /\ UNCHANGED <<movies, seq>>

\* The deadline of a call expires while it waits for a connection: the
\* statement never reached the store.
AcquireTimeout(c) ==
    /\ pc[c] = "acquiring"
    /\ call[c].deadline
    /\ Finish(c, [FailureOf(c, DeadlineExceeded) EXCEPT !.stmts = 0])
    /\ UNCHANGED <<movies, seq>>

LiveFilters == {[Page |-> 1, PageSize |-> MaxPageSize, Sort |-> "-id"]}

\* One caller makes every kind of call; the other reads, so that a call
\* waits while another call's deadline expires.
Reader == "c2"
NextLive ==
    \/ \E p \in InsertPayloads : InsertBegin(Lister, p)
    \/ InsertReturn(Lister)
    \/ \E c \in {Lister, Reader}, id \in InputIds : GetBegin(c, id)
    \/ \E c \in {Lister, Reader} : GetReturn(c)
    \/ \E m \in UpdateArgs : UpdateBegin(Lister, m)
    \/ UpdateReturn(Lister)
    \/ \E id \in InputIds : DeleteBegin(Lister, id)
    \/ DeleteReturn(Lister)
    \/ \E f \in LiveFilters : GetAllBegin(Lister, << >>, << >>, f)
    \/ GetAllReturn(Lister)

\* The runtime fires every timer that was started: a call whose deadline can
\* expire does not wait forever.
SpecLive ==
    Init /\ [][NextLive]_vars /\ \A c \in Callers : WF_vars(DeadlineExpires(c))

\* ------------------------------------------------------------------------
\* The connection pool.  The server is started with db-max-open-conns at
\* its default, at 1 or at 0 (no limit), and two callers read and write.
PoolSizes == {0, 1, DefaultMaxOpenConns}

InitPool ==
    /\ movies = << >>
    /\ seq = 0
    /\ pc = [c \in Callers |-> "idle"]
    /\ call = [c \in Callers |-> NoCall]
    /\ ret = [c \in Callers |-> ZeroRet]
    /\ logger = NewLogger(LevelInfo)
    /\ db \in {openDB(n) : n \in PoolSizes}

NextPool ==
    \E c \in Callers :
       \/ \E p \in InsertPayloads : InsertBegin(c, p)
       \/ InsertReturn(c)
       \/ \E id \in 1..MaxId : GetBegin(c, id)
       \/ GetReturn(c)
       \/ \E m \in UpdateArgs : UpdateBegin(c, m)
       \/ UpdateReturn(c)
       \/ Acquire(c)
       \/ AcquireTimeout(c)

SpecPool == InitPool /\ [][NextPool]_vars

\* ------------------------------------------------------------------------
\* Logging.  Goroutines call PrintInfo and PrintError on the one Logger; the
\* output destination takes the bytes of a Write in two parts, the last one
\* ending with the newline.
MaxLines == 3
LogLevels == {LevelInfo, LevelError}
Part(c, level, part) == [by |-> c, level |-> level, part |-> part]

\* if level < l.minLevel { return 0, nil }; otherwise the entry is marshalled
\* and the goroutine goes on to l.mu.Lock().
print(c, level) ==
    /\ pc[c] = "idle"
    /\ Len(logger.out) < 2 * MaxLines
    /\ call' = [call EXCEPT ![c] =
                  [NoCall EXCEPT !.op = "print", !.level = level]]
    /\ ret' = [ret EXCEPT ![c] = ZeroRet]
    /\ pc' = [pc EXCEPT ![c] =
                 IF level < logger.minLevel THEN "idle" ELSE "locking"]
    /\ UNCHANGED <<movies, seq, logger, db>>

\* l.mu.Lock(): waits until the mutex is free, then holds it.
LockWithoutMutex(c) ==
    /\ pc[c] = "locking"
    /\ pc' = [pc EXCEPT ![c] = "locked"]
    /\ UNCHANGED <<movies, seq, call, ret, logger, db>>
Lock(c) ==
    /\ pc[c] = "locking"
    /\ logger.mu = NoHolder
    /\ logger' = [logger EXCEPT !.mu = c]
    /\ pc' = [pc EXCEPT ![c] = "locked"]
    /\ UNCHANGED <<movies, seq, call, ret, db>>

\* l.out.Write(append(line, '\n')): the first and the last part of the line.
WriteHead(c) ==
    /\ pc[c] = "locked"
    /\ logger' = [logger EXCEPT
                    !.out = Append(@, Part(c, call[c].level, "head"))]
    /\ pc' = [pc EXCEPT ![c] = "midline"]
    /\ UNCHANGED <<movies, seq, call, ret, db>>
WriteTail(c) ==
    /\ pc[c] = "midline"
    /\ logger' = [logger EXCEPT
                    !.out = Append(@, Part(c, call[c].level, "tail"))]
    /\ pc' = [pc EXCEPT ![c] = "written"]
    /\ UNCHANGED <<movies, seq, call, ret, db>>

\* defer l.mu.Unlock(), and print returns.
Unlock(c) ==
    /\ pc[c] = "written"
    /\ logger' = [logger EXCEPT !.mu = NoHolder]
    /\ pc' = [pc EXCEPT ![c] = "idle"]
    /\ UNCHANGED <<movies, seq, call, ret, db>>

\* jsonlog.New(os.Stdout, minLevel) with a minimum of INFO or of ERROR.
InitLog ==
    /\ movies = << >>
    /\ seq = 0
    /\ pc = [c \in Callers |-> "idle"]
    /\ call = [c \in Callers |-> NoCall]
    /\ ret = [c \in Callers |-> ZeroRet]
    /\ logger \in {NewLogger(minLevel) : minLevel \in LogLevels}
    /\ db = openDB(DefaultMaxOpenConns)

NextLog ==
    \E c \in Callers :
       \/ \E level \in LogLevels : print(c, level)
       \/ Lock(c)
       \/ WriteHead(c)
       \/ WriteTail(c)
       \/ Unlock(c)

SpecLog == InitLog /\ [][NextLog]_vars

\* ------------------------------------------------------------------------
\* The metadata of a listing, for result sets larger than the listing
\* specification stores: GetAll's last statement applied to the count column
\* that its loop scans from a page of n matching rows.
MaxTotal == 13
MaxMetaPageSize == 5
MetaFilters ==
    [Page : 1..MaxPage, PageSize : 0..MaxMetaPageSize, Sort : {"id"}]

\* LIMIT $3 OFFSET $4 applied to n matching rows: the number of rows returned.
PageLen(n, f) ==
    IF n > offset(f) THEN Min(limit(f), n - offset(f)) ELSE 0

\* totalRecords after the loop: count(*) OVER() of the last row scanned, or
\* the initial 0 when the page holds no row.
TotalRecordsOf(n, f) == IF PageLen(n, f) = 0 THEN 0 ELSE n

GetAllMetadata(c, n, f) ==
    /\ pc[c] = "idle"
    /\ call' = [call EXCEPT ![c] =
                  [NoCall EXCEPT !.op = "calculateMetadata", !.filters = f,
                                 !.total = TotalRecordsOf(n, f)]]
    /\ ret' = [ret EXCEPT ![c] =
                 [ZeroRet EXCEPT
                    !.metadata = pageMetadata(TotalRecordsOf(n, f), f),
                    !.scanned = PageLen(n, f)]]
    /\ UNCHANGED <<movies, seq, pc, logger, db>>

NextMeta ==
    \E n \in 0..MaxTotal, f \in MetaFilters : GetAllMetadata(Lister, n, f)

SpecMeta == Init /\ [][NextMeta]_vars

\* ====================================================================
\* Properties
\* ====================================================================

\* The step in which caller c's call of op returns after its statement was sent.
Returns(c, op) ==
    /\ pc[c] = "waiting"
    /\ call[c].op = op
    /\ pc'[c] = "idle"

\* Caller c's last call was op and has returned.
Returned(c, op) == call[c].op = op /\ pc[c] = "idle"

\* The store answered c's statement (the call did not end in a driver error
\* or an expired deadline).
Answered(r) == r.err \notin StoreErrors

\* The stored row that Update's Movie m names, if any, has another version.
Stale(m) == m.ID \in StoredIds /\ movies[m.ID].version # m.Version

\* C1: an Update whose Movie carries a version other than the one stored for
\* its id changes no row, and returns ErrEditConflict whenever the store
\* answers the statement (otherwise the driver's error).
C1_StaleUpdateIsEditConflict ==
    [][\A c \in Callers :
         (Returns(c, "Update") /\ Stale(call[c].movie))
         => /\ movies' = movies
            /\ ret'[c].err # NoError
            /\ Answered(ret'[c]) => ret'[c].err = ErrEditConflict]_vars

C1_Witness ==
    \E c \in Callers :
       /\ Returned(c, "Update")
       /\ ret[c].err = ErrEditConflict
       /\ Stale(call[c].movie)
       /\ movies[call[c].movie.ID].title # call[c].movie.Title

\* C2: a successful Update of a row stored at version v leaves it stored at
\* v + 1 and sets the caller's Movie.Version to v + 1; a row enters the table
\* at version 1, and no other step changes a stored version.
C2_VersionStepsByOne ==
    [][/\ \A c \in Callers :
            (Returns(c, "Update") /\ ret'[c].err = NoError)
            => LET id == call[c].movie.ID IN
               /\ id \in StoredIds /\ id \in DOMAIN movies'
               /\ movies'[id].version = movies[id].version + 1
               /\ ret'[c].movie[1].Version = movies[id].version + 1
       /\ \A id \in DOMAIN movies' :
            IF id \in StoredIds
            THEN movies'[id].version # movies[id].version
                 => \E c \in Callers :
                       /\ Returns(c, "Update")
                       /\ ret'[c].err = NoError
                       /\ call[c].movie.ID = id
            ELSE movies'[id].version = 1]_vars

C2_Witness ==
    \E c \in Callers :
       /\ Returned(c, "Update")
       /\ ret[c].err = NoError
       /\ call[c].movie.Version = 1
       /\ ret[c].movie[1].Version = 2
       /\ call[c].movie.ID \in StoredIds
       /\ movies[call[c].movie.ID].version = 2

\* C3: of the Update calls that carry the same id and the same observed
\* version at most one succeeds, whatever the interleaving; every other one
\* that the store answers returns ErrEditConflict.
C3_AtMostOneUpdateWins ==
    \A c1, c2 \in Callers :
       (/\ c1 # c2
        /\ Returned(c1, "Update") /\ Returned(c2, "Update")
        /\ call[c1].movie.ID = call[c2].movie.ID
        /\ call[c1].movie.Version = call[c2].movie.Version
        /\ ret[c1].err = NoError)
       => /\ ret[c2].err # NoError
          /\ Answered(ret[c2]) => ret[c2].err = ErrEditConflict

C3_Witness ==
    \E c1, c2 \in Callers :
       /\ c1 # c2
       /\ Returned(c1, "Update") /\ Returned(c2, "Update")
       /\ call[c1].movie.ID = call[c2].movie.ID
       /\ call[c1].movie.Version = call[c2].movie.Version
       /\ ret[c1].err = NoError
       /\ ret[c2].err = ErrEditConflict

\* No stored row has the id and the version of Movie m.
MatchesNoRow(m) ==
    \A i \in StoredIds : ~(movies[i].id = m.ID /\ movies[i].version = m.Version)

\* C4: an Update whose statement matches no row, the row having been deleted
\* included, returns ErrEditConflict whenever the store answers: it never
\* succeeds, never returns ErrRecordNotFound, changes no row, and the call
\* has sent exactly one statement.
C4_ZeroRowsIsEditConflict ==
    [][\A c \in Callers :
         Returns(c, "Update")
         => /\ ret'[c].err # ErrRecordNotFound
            /\ ret'[c].stmts = 1
            /\ MatchesNoRow(call[c].movie)
               => /\ movies' = movies
                  /\ ret'[c].err # NoError
                  /\ Answered(ret'[c]) => ret'[c].err = ErrEditConflict]_vars

\* An Update of a row that was inserted and deleted again ended in a conflict.
C4_Witness ==
    \E c \in Callers :
       /\ Returned(c, "Update")
       /\ ret[c].err = ErrEditConflict
       /\ ret[c].stmts = 1
       /\ call[c].movie.ID \notin StoredIds
       /\ call[c].movie.ID <= seq

\* C5: a Get or Delete with an id below 1 returns ErrRecordNotFound (Get with
\* a nil Movie) having sent no statement to the store: the call is never in
\* flight, and the step that makes it changes neither the table nor the id
\* sequence.
C5_InvalidIdShortCircuits ==
    [][\A c \in Callers :
         (call'[c].op \in {"Get", "Delete"} /\ call'[c].id < 1)
         => /\ pc'[c] = "idle"
            /\ ret'[c].err = ErrRecordNotFound
            /\ ret'[c].movie = << >>
            /\ ret'[c].stmts = 0
            /\ (call'[c] # call[c] \/ ret'[c] # ret[c])
               => (movies' = movies /\ seq' = seq /\ pc[c] = "idle")]_vars

\* One caller has made Get(0), the other Delete(-1), with rows stored.
C5_Witness ==
    \E c1, c2 \in Callers :
       /\ call[c1].op = "Get" /\ call[c1].id = 0
       /\ call[c2].op = "Delete" /\ call[c2].id < 0
       /\ ret[c1].err = ErrRecordNotFound /\ ret[c2].err = ErrRecordNotFound
       /\ ret[c1].stmts = 0 /\ ret[c2].stmts = 0
       /\ StoredIds # {}

\* The table without the row of id.
Without(id) == [i \in StoredIds \ {id} |-> movies[i]]

\* C6: a Delete(id) with id >= 1 that the store answers removes exactly the
\* row of that id and returns nil when the row is stored, and returns
\* ErrRecordNotFound and changes no row when it is not; a Delete that fails
\* changes no row.  So of two Deletes of one id at most one returns nil.
C6_DeleteReportsAffectedRow ==
    [][/\ \A c \in Callers :
            Returns(c, "Delete")
            => LET id == call[c].id IN
               /\ id >= 1
               /\ ret'[c].stmts = 1
               /\ IF ~Answered(ret'[c]) THEN movies' = movies
                  ELSE IF id \in StoredIds
                       THEN ret'[c].err = NoError /\ movies' = Without(id)
                       ELSE ret'[c].err = ErrRecordNotFound /\ movies' = movies
       /\ \A c1, c2 \in Callers :
            (/\ c1 # c2
             /\ call'[c1].op = "Delete" /\ call'[c2].op = "Delete"
             /\ pc'[c1] = "idle" /\ pc'[c2] = "idle"
             /\ call'[c1].id = call'[c2].id /\ call'[c1].id >= 1
             /\ ret'[c1].err = NoError)
            => ret'[c2].err # NoError]_vars

\* Two Deletes of one id: one returned nil, the other ErrRecordNotFound, and
\* another row is still stored.
C6_Witness ==
    \E c1, c2 \in Callers :
       /\ c1 # c2
       /\ Returned(c1, "Delete") /\ Returned(c2, "Delete")
       /\ call[c1].id = call[c2].id /\ call[c1].id >= 1
       /\ ret[c1].err = NoError
       /\ ret[c2].err = ErrRecordNotFound
       /\ StoredIds # {}

\* C7: a Get(id) with id >= 1 returns ErrRecordNotFound only when no row of
\* that id is stored, and always when the store answers that there is none;
\* a failure of the store (an expired deadline included) comes back as that
\* error, never as ErrRecordNotFound; every error comes with a nil Movie, and
\* nil with the Movie of a stored row.
C7_GetNotFoundOnlyForNoRow ==
    [][\A c \in Callers :
         Returns(c, "Get")
         => LET id == call[c].id
                r == ret'[c]
            IN
            /\ r.err = ErrRecordNotFound => id \notin StoredIds
            /\ (Answered(r) /\ id \notin StoredIds) => r.err = ErrRecordNotFound
            /\ r.err # NoError => r.movie = << >>
            /\ r.err = NoError => (id \in StoredIds /\ Len(r.movie) = 1)
            /\ movies' = movies]_vars

\* One Get found no row; another, of a stored row, ran into the deadline.
C7_Witness ==
    \E c1, c2 \in Callers :
       /\ Returned(c1, "Get") /\ Returned(c2, "Get")
       /\ call[c1].id >= 1 /\ call[c1].id \notin StoredIds
       /\ ret[c1].err = ErrRecordNotFound /\ ret[c1].movie = << >>
       /\ call[c2].id \in StoredIds
       /\ ret[c2].err = DeadlineExceeded /\ ret[c2].movie = << >>

\* C8: a successful Insert adds exactly one row and changes no other; the
\* row's id is at least 1 and above every id handed out before (the ids of
\* deleted rows included); the caller's Movie carries that id, the row's
\* created_at and its version, which is 1, and keeps its own fields, which
\* are the row's.
C8_InsertAssignsFreshRow ==
    [][\A c \in Callers :
         (Returns(c, "Insert") /\ ret'[c].err = NoError)
         => \E id \in DOMAIN movies' \ StoredIds :
              LET m == ret'[c].movie[1]
                  row == movies'[id]
              IN
              /\ DOMAIN movies' = StoredIds \cup {id}
              /\ \A i \in StoredIds : movies'[i] = movies[i]
              /\ id >= 1 /\ id > seq /\ seq' = id
              /\ \A i \in StoredIds : i <= seq
              /\ m.ID = id /\ row.id = id
              /\ m.CreatedAt = row.created_at /\ m.CreatedAt # ZeroTime
              /\ m.Version = 1 /\ row.version = 1
              /\ m.Title = call[c].movie.Title /\ row.title = m.Title
              /\ m.Year = call[c].movie.Year /\ row.year = m.Year
              /\ m.Runtime = call[c].movie.Runtime /\ row.runtime = m.Runtime
              /\ m.Genres = call[c].movie.Genres /\ row.genres = m.Genres]_vars

\* An Insert returned id 2 after the row of id 1 had been deleted.
C8_Witness ==
    \E c \in Callers :
       /\ Returned(c, "Insert")
       /\ ret[c].err = NoError
       /\ ret[c].movie[1].ID = 2
       /\ ret[c].movie[1].Version = 1
       /\ StoredIds = {2}

\* The caller-visible content of a Movie: everything but CreatedAt, which
\* Update neither reads nor writes.
Content(m) == <<m.ID, m.Title, m.Year, m.Runtime, m.Genres, m.Version>>

\* C9: a successful Get returns the row as it is stored when the statement
\* runs: while the row is at the version an Insert handed back, Get returns a
\* Movie identical to the one Insert handed back; while it is at the version
\* an Update by any caller handed back, Get returns that Update's fields and
\* version.
C9_GetReadsCurrentRow ==
    [][\A c \in Callers :
         (Returns(c, "Get") /\ ret'[c].err = NoError)
         => LET got == ret'[c].movie[1] IN
            /\ got.ID = call[c].id
            /\ got.Version = movies[call[c].id].version
            /\ got.Title = movies[call[c].id].title
            /\ got.Year = movies[call[c].id].year
            /\ got.Runtime = movies[call[c].id].runtime
            /\ got.Genres = movies[call[c].id].genres
            /\ got.CreatedAt = movies[call[c].id].created_at
            /\ \A w \in Callers \ {c} :
                 (/\ pc[w] = "idle" /\ ret[w].err = NoError
                  /\ call[w].op \in {"Insert", "Update"}
                  /\ ret[w].movie[1].ID = got.ID
                  /\ ret[w].movie[1].Version = got.Version)
                 => IF call[w].op = "Insert"
                    THEN got = ret[w].movie[1]
                    ELSE Content(got) = Content(ret[w].movie[1])]_vars

\* A Get returned version 2 and the title that another caller's successful
\* Update wrote.
C9_Witness ==
    \E c, w \in Callers :
       /\ c # w
       /\ Returned(c, "Get") /\ ret[c].err = NoError
       /\ Returned(w, "Update") /\ ret[w].err = NoError
       /\ ret[c].movie[1].ID = ret[w].movie[1].ID
       /\ ret[c].movie[1].Version = 2
       /\ ret[w].movie[1].Version = 2
       /\ ret[c].movie[1].Title = Heat.Title

\* A Get returned the Movie that another caller's Insert handed back.
C9_WitnessInsert ==
    \E c, w \in Callers :
       /\ c # w
       /\ Returned(c, "Get") /\ ret[c].err = NoError
       /\ Returned(w, "Insert") /\ ret[w].err = NoError
       /\ ret[c].movie = ret[w].movie

\* C10: the total record count in the Metadata of a successful GetAll is the
\* number of stored rows that match the title and genre filters, whatever
\* page and page size were asked for.
C10_TotalIsCountBeforePaging ==
    [][\A c \in Callers :
         (Returns(c, "GetAll") /\ ret'[c].err = NoError)
         => ret'[c].metadata.TotalRecords =
               Cardinality(Matching(call[c].title, call[c].genres))]_vars

\* The stored rows that carry every genre of a genre filter (all rows for the
\* empty filter), and the length of the limit/offset slice of n rows.
HasEveryGenre(i, genres) ==
    \A g \in DOMAIN genres :
       \E j \in DOMAIN movies[i].genres : movies[i].genres[j] = genres[g]
RowsWithGenres(genres) == {i \in StoredIds : HasEveryGenre(i, genres)}
SliceLen(n, f) ==
    LET skipped == (f.Page - 1) * f.PageSize
    IN  IF n <= skipped THEN 0
        ELSE IF n - skipped < f.PageSize THEN n - skipped ELSE f.PageSize
ReturnedIds(r) == {r.movies[k].ID : k \in DOMAIN r.movies}

\* C11: a successful GetAll with an empty search string returns distinct
\* stored rows that each carry every requested genre, as many of them as the
\* limit/offset slice of all such rows holds; with the genre filter empty as
\* well, that is the slice of all stored rows.
C11_GenreFilterIsContainment ==
    [][\A c \in Callers :
         (Returns(c, "GetAll") /\ ret'[c].err = NoError
          /\ call[c].title = << >>)
         => /\ ReturnedIds(ret'[c]) \subseteq RowsWithGenres(call[c].genres)
            /\ Cardinality(ReturnedIds(ret'[c])) = Len(ret'[c].movies)
            /\ Len(ret'[c].movies) =
                  SliceLen(Cardinality(RowsWithGenres(call[c].genres)),
                           call[c].filters)
            /\ call[c].genres = << >>
                  => Len(ret'[c].movies) =
                        SliceLen(Cardinality(StoredIds), call[c].filters)]_vars

\* A listing by two genres has returned the one stored row that carries both,
\* out of two stored rows that each carry one of them.
C11_Witness ==
    \E c \in Callers :
       /\ Returned(c, "GetAll") /\ ret[c].err = NoError
       /\ call[c].title = << >>
       /\ call[c].genres = <<"drama", "scifi">>
       /\ call[c].filters.Page = 1 /\ call[c].filters.PageSize = 2
       /\ Len(ret[c].movies) = 1
       /\ ret[c].movies[1].Genres = Dune.Genres
       /\ \E i \in StoredIds : movies[i].genres = Heat.Genres

\* C12: the Metadata computed for a total of zero has every field zero,
\* whatever the page and page size; for any other total the page size it
\* divides by is not zero, the first page is 1, the last page is the total
\* divided by the page size rounded up (13 records in pages of 5 end on page
\* 3), and the current page and page size are the ones asked for.
C12_MetadataIsCeiling ==
    \A c \in Callers :
       call[c].op = "calculateMetadata"
       => LET total == call[c].total
              f == call[c].filters
              m == ret[c].metadata
          IN  /\ total = 0 => m = ZeroMetadata
              /\ total # 0
                   => /\ f.PageSize # 0
                      /\ m.FirstPage = 1
                      /\ m.LastPage * f.PageSize >= total
                      /\ (m.LastPage - 1) * f.PageSize < total
                      /\ m.CurrentPage = f.Page
                      /\ m.PageSize = f.PageSize
                      /\ m.TotalRecords = total
              /\ (total = 13 /\ f.PageSize = 5) => m.LastPage = 3

\* Metadata has been computed for 13 records in pages of 5, on page 2.
C12_Witness ==
    \E c \in Callers :
       /\ call[c].op = "calculateMetadata"
       /\ call[c].total = 13
       /\ call[c].filters.PageSize = 5 /\ call[c].filters.Page = 2
       /\ ret[c].metadata.LastPage = 3

\* Metadata has been computed for a page size of zero.
C12_WitnessZero ==
    \E c \in Callers :
       /\ call[c].op = "calculateMetadata"
       /\ call[c].total = 0
       /\ call[c].filters.PageSize = 0 /\ call[c].filters.Page = 3
       /\ ret[c].metadata = ZeroMetadata

\* C13: a GetAll whose Sort value is outside the allow-list id, title, year,
\* runtime, -id, -title, -year, -runtime never has a statement at the store:
\* the call has handed over no statement and is not waiting for one.
C13_UnsafeSortSendsNoStatement ==
    \A c \in Callers :
       (call[c].op = "GetAll"
        /\ call[c].filters.Sort \notin
              {"id", "title", "year", "runtime",
               "-id", "-title", "-year", "-runtime"})
       => (ret[c].stmts = 0 /\ pc[c] = "idle" /\ ret[c].err # NoError
           /\ ret[c].movies = << >>)

\* A GetAll with a Sort value off the allow-list has been rejected while the
\* table holds a row.
C13_Witness ==
    \E c \in Callers :
       /\ call[c].op = "GetAll"
       /\ call[c].filters.Sort = UnsafeSort
       /\ ret[c].err = UnsafeSortPanic
       /\ ret[c].stmts = 0
       /\ StoredIds # {}

\* The order a Sort value asks for: by the named column, downwards when the
\* value starts with "-", rows with equal values by ascending id.
Descending(sort) == sort \in {"-id", "-title", "-year", "-runtime"}
ColumnValue(row, sort) ==
    CASE sort \in {"id", "-id"} -> row.id
      [] sort \in {"title", "-title"} -> TitleRank(row.title)
      [] sort \in {"year", "-year"} -> row.year
      [] sort \in {"runtime", "-runtime"} -> row.runtime
Precedes(q, r, sort) ==
    LET vq == ColumnValue(q, sort)
        vr == ColumnValue(r, sort)
    IN  \/ (vq # vr /\ (IF Descending(sort) THEN vq > vr ELSE vq < vr))
        \/ (vq = vr /\ q.id < r.id)
RankIn(r, S, sort) == Cardinality({q \in S : Precedes(q, r, sort)})

\* The ids on page p of a listing, in the store as it is.
PageIds(title, genres, f, p) ==
    ReturnedIds([movies |->
                   ScanMovies(QueryRows(title, genres, [f EXCEPT !.Page = p]))])
PagesNeeded(n, f) ==
    CHOOSE last \in 0..n : last * f.PageSize >= n
                           /\ (last = 0 \/ (last - 1) * f.PageSize < n)

\* C14: a successful GetAll returns the matching rows in the order of the sort
\* column and direction with equal values in ascending id order: the k-th
\* movie of page p is the matching row that exactly (p-1)*pageSize + k - 1
\* matching rows precede. In the same store state the pages from 1 to the
\* last page are pairwise disjoint and hold every matching row.
C14_PagesPartitionSortedRows ==
    [][\A c \in Callers :
         (Returns(c, "GetAll") /\ ret'[c].err = NoError)
         => LET f == call[c].filters
                S == Matching(call[c].title, call[c].genres)
                n == Cardinality(S)
                out == ret'[c].movies
                pages == 1..PagesNeeded(n, f)
                ids(p) == PageIds(call[c].title, call[c].genres, f, p)
            IN  /\ Len(out) = SliceLen(n, f)
                /\ \A k \in DOMAIN out :
                      \E r \in S :
                         /\ r.id = out[k].ID
                         /\ RankIn(r, S, f.Sort) =
                               (f.Page - 1) * f.PageSize + k - 1
                /\ \A p, q \in pages : p # q => ids(p) \cap ids(q) = {}
                /\ UNION {ids(p) : p \in pages} = {r.id : r \in S}]_vars

\* Two stored films of the same year were listed by year, one per page, and
\* page 2 returned the one with the higher id.
C14_Witness ==
    \E c \in Callers :
       /\ Returned(c, "GetAll") /\ ret[c].err = NoError
       /\ call[c].title = << >> /\ call[c].genres = << >>
       /\ call[c].filters = [Page |-> 2, PageSize |-> 1, Sort |-> "-year"]
       /\ StoredIds = {1, 2}
       /\ movies[1].year = movies[2].year
       /\ Len(ret[c].movies) = 1
       /\ ret[c].movies[1].ID = 2

\* C19: a GetAll that returns an error returns no movie and the zero
\* Metadata with it, however many rows its loop had read when the query, a
\* Scan or the iteration failed.
C19_FailedListingReturnsNothing ==
    [][\A c \in Callers :
         (Returns(c, "GetAll") /\ ret'[c].err # NoError)
         => /\ ret'[c].movies = << >>
            /\ ret'[c].metadata = ZeroMetadata
            /\ ret'[c].err \in StoreErrors]_vars

\* A GetAll has failed after its loop had read two rows.
C19_Witness ==
    \E c \in Callers :
       /\ Returned(c, "GetAll")
       /\ ret[c].err \in StoreErrors
       /\ ret[c].scanned = 2
       /\ ret[c].movies = << >>

\* C15: a call that is waiting for the store eventually returns, whether or
\* not the store answers; and the step in which a call's deadline expires
\* returns the call with an error that is neither nil nor ErrRecordNotFound
\* nor ErrEditConflict, and changes no row.
C15_EveryCallReturnsByDeadline ==
    /\ \A c \in Callers : (pc[c] = "waiting") ~> (pc[c] = "idle")
    /\ [][\A c \in Callers :
            DeadlineExpires(c)
            => /\ pc'[c] = "idle"
               /\ ret'[c].err \notin {NoError, ErrRecordNotFound, ErrEditConflict}
               /\ movies' = movies]_vars

\* An Update has returned the deadline error while a Get of the other caller
\* is still waiting for the store.
C15_Witness ==
    \E c, d \in Callers :
       /\ Returned(c, "Update") /\ ret[c].err = DeadlineExceeded
       /\ call[d].op = "Get" /\ pc[d] = "waiting"
       /\ call[c].deadline /\ call[d].deadline

\* The genre constraints of a row: 1 to 5 genres, no two the same.
GenresOk(g) ==
    /\ Len(g) >= 1 /\ Len(g) <= 5
    /\ \A i, j \in DOMAIN g : i # j => g[i] # g[j]

HasKey(v, key) == \E e \in v : e[1] = key
RulesHold(m) ==
    /\ m.Title # << >> /\ TitleBytes(m.Title) <= 500
    /\ m.Year >= 1888 /\ m.Year <= CurrentYear
    /\ m.Runtime > 0
    /\ Len(m.Genres) >= 1 /\ Len(m.Genres) <= 5
    /\ \A i \in DOMAIN m.Genres : m.Genres[i] # ""
    /\ \A i, j \in DOMAIN m.Genres : i # j => m.Genres[i] # m.Genres[j]

\* C18: ValidateMovie leaves the validator without errors exactly when the
\* Movie has a non-empty title of at most 500 bytes, a year from 1888 to the
\* current year, a positive runtime and 1 to 5 non-empty genres without
\* duplicates; no genres, six genres and duplicate genres each leave an error
\* under "genres", and the year after the current one an error under "year".
C18_ValidExactlyWhenRulesHold ==
    \A c \in Callers :
       call[c].op = "ValidateMovie"
       => LET m == call[c].movie
              v == ret[c].errors
          IN  /\ Valid(v) <=> RulesHold(m)
              /\ Len(m.Genres) = 0 => HasKey(v, "genres")
              /\ Len(m.Genres) = 6 => HasKey(v, "genres")
              /\ (\E i, j \in DOMAIN m.Genres :
                     i # j /\ m.Genres[i] = m.Genres[j])
                   => HasKey(v, "genres")
              /\ m.Year = CurrentYear + 1 => HasKey(v, "year")

\* A call is blocked when it has begun, its statement has not gone to the
\* store, and it cannot go on to the store in the state as it is.
Blocked(c) == pc[c] = "acquiring" /\ ~ENABLED Acquire(c)
OthersAtStore(c) == {d \in Callers \ {c} : pc[d] = "waiting"}

\* C17 as stated: no call is ever blocked before the store by the calls of
\* other callers.
C17_NoCallWaitsForAnother ==
    \A c \in Callers : ~Blocked(c)

\* C17 as amended: a call is blocked before the store only while the pool
\* has a positive maximum of open connections and other calls hold that many
\* connections with statements at the store; a blocked call can still end by
\* its own deadline, a call at the store can always return, and an idle
\* caller can always begin a call.  No more statements are at the store
\* than the maximum allows.
C17_CallWaitsOnlyForFullPool ==
    /\ \A c \in Callers :
          /\ Blocked(c)
                => /\ db.maxOpenConns > 0
                   /\ Cardinality(OthersAtStore(c)) = db.maxOpenConns
                   /\ ENABLED AcquireTimeout(c)
          /\ pc[c] = "waiting" => ENABLED DeadlineExpires(c)
          /\ pc[c] = "idle" => ENABLED GetBegin(c, 1)
          /\ pc[c] \in {"idle", "waiting", "acquiring"}
    /\ db.maxOpenConns > 0 => InUse <= db.maxOpenConns
    /\ db.maxOpenConns > Cardinality(Callers) => \A c \in Callers : ~Blocked(c)

\* With a pool of one connection, a Get is blocked while the Update of the
\* other caller is at the store.
C17_Witness ==
    \E c, d \in Callers :
       /\ db.maxOpenConns = 1
       /\ call[c].op = "Get" /\ Blocked(c)
       /\ call[d].op = "Update" /\ pc[d] = "waiting"

\* The goroutines that are between taking the mutex and releasing it.
Writers == {c \in Callers : pc[c] \in {"locked", "midline", "written"}}
WholeLineAt(i, c, level) ==
    /\ i + 1 <= Len(logger.out)
    /\ logger.out[i] = [by |-> c, level |-> level, part |-> "head"]
    /\ logger.out[i + 1] = [by |-> c, level |-> level, part |-> "tail"]

\* C20: at most one goroutine is writing to the output at any time; the
\* output is a sequence of whole lines, each the two parts of one entry next
\* to each other, with at most the line being written unfinished at its end;
\* a print that has returned for an entry at or above the minimum level has
\* its line in the output; and no part of an entry below the minimum level
\* is in the output.
C20_LogLinesAreWhole ==
    /\ Cardinality(Writers) <= 1
    /\ \A i \in DOMAIN logger.out :
          /\ logger.out[i].level >= logger.minLevel
          /\ (i % 2 = 1) =>
                /\ logger.out[i].part = "head"
                /\ \/ WholeLineAt(i, logger.out[i].by, logger.out[i].level)
                   \/ (i = Len(logger.out) /\ pc[logger.out[i].by] = "midline")
          /\ (i % 2 = 0) => logger.out[i].part = "tail"
    /\ \A c \in Callers :
          (call[c].op = "print" /\ pc[c] = "idle")
          => IF call[c].level < logger.minLevel
             THEN \A i \in DOMAIN logger.out :
                     logger.out[i].level # call[c].level
             ELSE \E i \in DOMAIN logger.out : WholeLineAt(i, c, call[c].level)

\* With a minimum of ERROR, one goroutine has written a whole line and now
\* waits for the mutex, which the other holds in the middle of its line.
C20_Witness ==
    \E c, d \in Callers :
       /\ logger.minLevel = LevelError
       /\ pc[c] = "midline" /\ pc[d] = "locking" /\ logger.mu = c
       /\ Len(logger.out) = 3
       /\ WholeLineAt(1, d, LevelError)

\* An entry below the minimum level has been dropped: its print has returned
\* and the output is still empty.
C20_WitnessDropped ==
    \E c \in Callers :
       /\ logger.minLevel = LevelError
       /\ call[c].op = "print" /\ call[c].level = LevelInfo /\ pc[c] = "idle"
       /\ logger.out = << >>

====
